---- MODULE Spec2Model ----
\* A model of the eodhd_data downloader: the per-ticker batch loop download_data
\* (spx_history.py / download_intraday.py), the chunked intraday fetch
\* get_raw_intraday (spx_history.py) and get_stock_intraday_history with
\* make_request (eodhd_fetcher.py), the price adjustment
\* adjust_intraday_prices on the tables of get_splits and get_dividends
\* (spx_history.py), and the thread pool of fetch_data_parallel
\* (eodhd_fetcher.py).
EXTENDS Integers, Sequences, FiniteSets, TLC

\* ------------------------------------------------------------------ bounds
\* Longest ticker list handed to download_data.
MaxTickers == 3

\* The ticker symbols lists are drawn from (duplicates in a list are allowed:
\* download_data takes any list).
Syms == {"AAPL", "BAD", "MSFT"}

VARIABLES
    \* ---- download_data
    tickers,     \* the ticker list (argument)
    files,       \* the output directory: sym -> "none" | "old" | "full" | "partial"
    failed,      \* failed_tickers: sym -> error message
    i,           \* position of the for loop in tickers (1-based)
    pc,          \* "loop" | "done" | "raised" (an exception left download_data)
    run,         \* 1: first call, 2: the call repeated on the same directory
    failed1,     \* what the first call returned
    ncalls,      \* sym -> number of fun_to_d calls made for it in this run
    raisedErr,   \* sym -> the error its last failing visit of this run raised
    persisted,   \* syms whose to_csv completed in this run
    skipped,     \* syms skipped in this run because their file existed
    last         \* the last loop iteration: [idx, sym, fetch, persist]

dlvars == <<tickers, files, failed, i, pc, run, failed1, ncalls, raisedErr,
            persisted, skipped, last>>

VARIABLES
    \* ---- get_raw_intraday / get_stock_intraday_history
    fn,            \* "raw": get_raw_intraday, "hist": get_stock_intraday_history, "-": idle
    tkind,         \* type of start_dt/end_dt: "date" (days) or "datetime" (seconds)
    start_dt,
    end_dt,
    current_start,
    chunks,        \* the sub-ranges produced so far, [from, to] in unix seconds
    k,             \* hist: position of the for loop in chunks (1-based)
    fpc,           \* "chunk" | "request" | "done" | "-"
    all_data,      \* indices of the sub-ranges whose records were appended
    junk,          \* raw: all_data also holds the keys of a JSON object
    result,        \* the returned records (indices of their sub-ranges)
    aborted,       \* raw: the except clause of line 88 ran
    lastReq,       \* the last HTTP exchange: [from, to, status, body]
    nreq,          \* number of HTTP requests issued
    n429,          \* number of 429 responses received
    tokenAt,       \* nreq when an invalid-credential payload first arrived, else 0
    requested,     \* indices of the sub-ranges requested at least once
    delivered,     \* indices of the sub-ranges answered 200 with a list of bars
    transient,     \* a sub-range ended in a non-429 error that is no credential payload
    refused,       \* indices of the sub-ranges answered with a status other than 200
    rawFile        \* raw under download_data: the ticker's csv, "none" | "full" | "partial"

fvars == <<fn, tkind, start_dt, end_dt, current_start, chunks, k, fpc, all_data,
           junk, result, aborted, lastReq, nreq, n429, tokenAt, requested,
           delivered, transient, refused, rawFile>>

VARIABLES
    \* ---- get_splits / get_dividends / adjust_intraday_prices
    intraday_df,   \* the bars: a sequence of [timestamp, open, high, low, close, volume]
    splits_df,     \* what get_splits returned: [cols, rows], rows of [date, split]
    div_df,        \* what get_dividends returned: [cols, rows], rows of [recordDate, unadjustedValue]
    adjusted,      \* what adjust_intraday_prices did: [status, ...]
    apc            \* "splits" | "divs" | "adjust" | "done" | "-"

avars == <<intraday_df, splits_df, div_df, adjusted, apc>>

VARIABLES
    \* ---- fetch_data_parallel
    ticker_list,   \* the tickers submitted, in submission order
    max_workers,   \* size of the thread pool
    limited,       \* the tickers whose requests the provider answers with 429 at will
    task,          \* ticker -> "queued" | "running" | "backoff" | "ok" | "exc"
    results,       \* the tickers that have an entry in results
    handled,       \* the tickers whose future the as_completed loop has handled
    ppc            \* "run" | "returned" | "-"

pvars == <<ticker_list, max_workers, limited, task, results, handled, ppc>>

vars == <<dlvars, fvars, avars, pvars>>

\* ------------------------------------------------------------ download_data
\* download_intraday.py defines download_data again with the same body as
\* spx_history.py; one model stands for both.
EmptyMap == [t \in {} |-> ""]

Put(f, key, v) == [t \in (DOMAIN f) \cup {key} |-> IF t = key THEN v ELSE f[t]]

SeqsUpTo(S, n) == UNION {[1..m -> S] : m \in 1..n}

Range(s) == {s[n] : n \in DOMAIN s}

\* What one call fun_to_d(sym, start_dt, end_dt) followed by to_csv can do:
\* the fetch returns rows, returns an empty table or raises; to_csv completes,
\* raises before the file is opened, or raises after it was opened for writing.
Outcomes ==
    {[fetch |-> "rows", persist |-> p] : p \in {"ok", "open_fails", "write_fails"}}
    \cup {[fetch |-> "empty", persist |-> "-"], [fetch |-> "raise", persist |-> "-"]}

\* Variant of IsFile: the existence test never finds the file.
IsFileNever(sym) == FALSE

\* Path(csv_file_path).is_file()
IsFile(sym) == files[sym] # "none"

\* Variant of ToCsv: a write that leaves no file behind.
ToCsvNoFile(old, persist) == old

\* t.to_csv(csv_file_path, index=False): the file is opened (created or
\* truncated) and then written; an error after the open leaves what was written.
ToCsv(old, persist) ==
    CASE persist = "ok" -> "full"
      [] persist = "write_fails" -> "partial"
      [] OTHER -> old

\* Variant of TryBody: an empty result is let through (no assert).
TryBodyNoAssert(old, o) ==
    IF o.fetch = "rows"
    THEN [file |-> ToCsv(old, o.persist),
          exc |-> IF o.persist = "ok" THEN "none" ELSE "write error"]
    ELSE [file |-> old, exc |-> IF o.fetch = "raise" THEN "fetch error" ELSE "none"]

\* The try block: t = fun_to_d(...); if len(t) != 0: t.to_csv(...) else:
\* assert False, "0 rows returned". Gives the file afterwards and the exception
\* raised ("none" when the block completes).
TryBody(old, o) ==
    CASE o.fetch = "raise" -> [file |-> old, exc |-> "fetch error"]
      [] o.fetch = "empty" -> [file |-> old, exc |-> "0 rows returned"]
      [] OTHER -> [file |-> ToCsv(old, o.persist),
                   exc |-> IF o.persist = "ok" THEN "none" ELSE "write error"]

\* Variant of Except: the exception is not caught and leaves download_data.
ExceptPropagates(f, sym, e) == [failed |-> f, pc |-> "raised"]

\* except Exception as e: failed_tickers[sym] = e, and the loop goes on.
Except(f, sym, e) == [failed |-> Put(f, sym, e), pc |-> "loop"]

DlInit ==
    /\ tickers \in SeqsUpTo(Syms, MaxTickers)
    /\ files \in [Syms -> {"none", "old"}]
    /\ failed = EmptyMap
    /\ i = 1
    /\ pc = "loop"
    /\ run = 1
    /\ failed1 = EmptyMap
    /\ ncalls = [t \in Syms |-> 0]
    /\ raisedErr = EmptyMap
    /\ persisted = {}
    /\ skipped = {}
    /\ last = [idx |-> 0, sym |-> "", fetch |-> "-", persist |-> "-"]

\* One iteration of the for loop on a ticker whose csv file exists: continue.
Skip ==
    /\ pc = "loop" /\ i <= Len(tickers)
    /\ IsFile(tickers[i])
    /\ i' = i + 1
    /\ skipped' = skipped \cup {tickers[i]}
    /\ last' = [idx |-> i, sym |-> tickers[i], fetch |-> "skip", persist |-> "-"]
    /\ UNCHANGED <<tickers, files, failed, pc, run, failed1, ncalls, raisedErr,
                   persisted>>
    /\ UNCHANGED fvars
    /\ UNCHANGED <<avars, pvars>>

\* One iteration of the for loop on a ticker with no csv file: the try block
\* and its except clause.
Process ==
    /\ pc = "loop" /\ i <= Len(tickers)
    /\ ~IsFile(tickers[i])
    /\ \E o \in Outcomes :
        LET sym == tickers[i]
            r == TryBody(files[sym], o)
            h == Except(failed, sym, r.exc)
        IN  /\ files' = [files EXCEPT ![sym] = r.file]
            /\ ncalls' = [ncalls EXCEPT ![sym] = @ + 1]
            /\ IF r.exc = "none"
               THEN /\ failed' = failed
                    /\ pc' = "loop"
               ELSE /\ failed' = h.failed
                    /\ pc' = h.pc
            /\ raisedErr' =
                 IF o.fetch = "rows" /\ o.persist = "ok" THEN raisedErr
                 ELSE Put(raisedErr, sym,
                          CASE o.fetch = "raise" -> "fetch error"
                            [] o.fetch = "empty" -> "0 rows returned"
                            [] OTHER -> "write error")
            /\ persisted' =
                 IF o.fetch = "rows" /\ o.persist = "ok"
                 THEN persisted \cup {sym} ELSE persisted
            /\ last' = [idx |-> i, sym |-> sym, fetch |-> o.fetch,
                        persist |-> o.persist]
    /\ i' = i + 1
    /\ UNCHANGED <<tickers, run, failed1, skipped>>
    /\ UNCHANGED fvars
    /\ UNCHANGED <<avars, pvars>>

\* return failed_tickers
Return ==
    /\ pc = "loop" /\ i > Len(tickers)
    /\ pc' = "done"
    /\ UNCHANGED <<tickers, files, failed, i, run, failed1, ncalls, raisedErr,
                   persisted, skipped, last>>
    /\ UNCHANGED fvars
    /\ UNCHANGED <<avars, pvars>>

\* download_data called again with the same data kind, ticker list and
\* output directory.
Rerun ==
    /\ pc = "done" /\ run = 1
    /\ run' = 2
    /\ failed1' = failed
    /\ failed' = EmptyMap
    /\ i' = 1
    /\ pc' = "loop"
    /\ ncalls' = [t \in Syms |-> 0]
    /\ raisedErr' = EmptyMap
    /\ persisted' = {}
    /\ skipped' = {}
    /\ last' = [idx |-> 0, sym |-> "", fetch |-> "-", persist |-> "-"]
    /\ UNCHANGED <<tickers, files>>
    /\ UNCHANGED fvars
    /\ UNCHANGED <<avars, pvars>>

DlIdle ==
    /\ tickers = <<>>
    /\ files = [t \in Syms |-> "none"]
    /\ failed = EmptyMap
    /\ i = 1
    /\ pc = "-"
    /\ run = 1
    /\ failed1 = EmptyMap
    /\ ncalls = [t \in Syms |-> 0]
    /\ raisedErr = EmptyMap
    /\ persisted = {}
    /\ skipped = {}
    /\ last = [idx |-> 0, sym |-> "", fetch |-> "-", persist |-> "-"]

\* ------------------------------------------------------- the chunked fetches
\* Largest number of whole 100-day windows in the requested range.
MaxWindows == 2

\* The range ends this far around a whole number of windows (days for dates
\* and date strings, seconds for datetimes).
Slack == 1

\* Most 429 responses in one fetch.
Max429 == 2

\* timedelta(days=100) / chunk_days = 100
ChunkDays == 100

\* timedelta(seconds=1), the step of get_raw_intraday
RawStepSeconds == 1

\* timedelta(minutes=5), the step of get_stock_intraday_history
HistStepMinutes == 5

SecondsPerDay == 24 * 60 * 60

Window == ChunkDays * SecondsPerDay

Min(a, b) == IF a <= b THEN a ELSE b

\* value + timedelta(seconds=delta): a datetime moves by delta; a date moves
\* by the whole days of delta only (date arithmetic drops seconds).
AddDelta(kind, value, delta) ==
    IF kind = "date" THEN value + (delta \div SecondsPerDay) ELSE value + delta

\* date_to_unix / int(x.timestamp()): a date is midnight UTC of its day.
ToUnix(kind, value) == IF kind = "date" THEN value * SecondsPerDay ELSE value

\* The step added after a sub-range's end.
Step(f) == IF f = "raw" THEN RawStepSeconds ELSE HistStepMinutes * 60

\* current_end = min(current_start + timedelta(days=100), end_dt)
CurrentEnd(kind, cs, e) == Min(AddDelta(kind, cs, Window), e)

\* Variant of NextStart: the step is taken backwards by a window.
NextStartBackward(f, kind, ce) == AddDelta(kind, ce, 0 - Window)

\* current_start = current_end + timedelta(seconds=1) / timedelta(minutes=5)
NextStart(f, kind, ce) == AddDelta(kind, ce, Step(f))

\* The sub-ranges the while loop produces from cs on when nothing stops it.
RECURSIVE ChunkPlan(_, _, _, _)
ChunkPlan(f, kind, cs, e) ==
    IF cs < e
    THEN LET ce == CurrentEnd(kind, cs, e)
         IN  <<[from |-> ToUnix(kind, cs), to |-> ToUnix(kind, ce)]>>
             \o ChunkPlan(f, kind, NextStart(f, kind, ce), e)
    ELSE <<>>

\* What the provider can answer to one request. Status 0 stands for no answer:
\* the transport raised (timeout, connection error). Bodies: "rows" a JSON list
\* of bars, "empty" the JSON list [], "dict" a JSON object, "token" non-JSON
\* text containing "Valid API token", "text" other non-JSON text.
Responses ==
    {[status |-> 200, body |-> b] : b \in {"rows", "empty", "dict", "token", "text"}}
    \cup {[status |-> 429, body |-> "text"],
          [status |-> 401, body |-> "token"],
          [status |-> 500, body |-> "text"],
          [status |-> 0, body |-> "-"]}

EndOffsets == {w * ChunkDays + j : w \in 0..MaxWindows, j \in (0 - Slack)..Slack}

EndSeconds == {w * Window + j : w \in 0..MaxWindows, j \in (0 - Slack)..Slack}

NoReq == [from |-> 0, to |-> 0, status |-> 0, body |-> "-"]

\* make_request's return value for a response that is not a 429: the parsed
\* JSON, the text when a 200 body is no JSON, None otherwise.
MakeRequestData(resp) ==
    CASE resp.status = 200 /\ resp.body = "rows" -> "list"
      [] resp.status = 200 /\ resp.body = "empty" -> "emptylist"
      [] resp.status = 200 /\ resp.body = "dict" -> "dict"
      [] resp.status = 200 /\ resp.body = "token" -> "str_token"
      [] resp.status = 200 /\ resp.body = "text" -> "str"
      [] OTHER -> "None"

\* The body of the for loop of get_stock_intraday_history on one chunk's data:
\* whether the data is appended and whether the loop breaks.
HistHandle(data) ==
    [extend |-> data = "list", brk |-> data = "str_token"]

\* The body of the while loop of get_raw_intraday on one response:
\* requests.get, then all_data.extend(response.json()) on status 200.
\* exc: an exception reaches the except clause of the function.
RawHandle(resp) ==
    CASE resp.status = 0 -> [extend |-> "nothing", exc |-> TRUE]
      [] resp.status = 200 /\ resp.body = "rows" -> [extend |-> "rows", exc |-> FALSE]
      [] resp.status = 200 /\ resp.body = "empty" -> [extend |-> "nothing", exc |-> FALSE]
      [] resp.status = 200 /\ resp.body = "dict" -> [extend |-> "junk", exc |-> FALSE]
      [] resp.status = 200 -> [extend |-> "nothing", exc |-> TRUE]
      [] OTHER -> [extend |-> "nothing", exc |-> FALSE]

\* A response that is an error of the sub-range other than a 429 and other
\* than an invalid-credential payload.
IsTransient(resp) ==
    /\ resp.status # 429
    /\ resp.body # "token"
    /\ ~(resp.status = 200 /\ resp.body \in {"rows", "empty"})

FetchInit ==
    /\ \/ /\ fn = "raw" /\ tkind = "date"
          /\ start_dt = 0 /\ end_dt \in EndOffsets
       \/ /\ fn = "raw" /\ tkind = "datetime"
          /\ start_dt = 0 /\ end_dt \in EndSeconds
       \/ /\ fn = "hist" /\ tkind = "datetime"
          /\ start_dt = 0 /\ end_dt \in {d * SecondsPerDay : d \in EndOffsets}
    /\ current_start = start_dt
    /\ chunks = <<>>
    /\ k = 1
    /\ fpc = IF fn = "hist" THEN "chunk" ELSE "request"
    /\ all_data = {}
    /\ junk = FALSE
    /\ result = {}
    /\ aborted = FALSE
    /\ lastReq = NoReq
    /\ nreq = 0
    /\ n429 = 0
    /\ tokenAt = 0
    /\ requested = {}
    /\ delivered = {}
    /\ transient = FALSE
    /\ refused = {}
    /\ rawFile = "none"

FetchIdle ==
    /\ fn = "-" /\ tkind = "-"
    /\ start_dt = 0 /\ end_dt = 0 /\ current_start = 0
    /\ chunks = <<>>
    /\ k = 1
    /\ fpc = "-"
    /\ all_data = {}
    /\ junk = FALSE
    /\ result = {}
    /\ aborted = FALSE
    /\ lastReq = NoReq
    /\ nreq = 0
    /\ n429 = 0
    /\ tokenAt = 0
    /\ requested = {}
    /\ delivered = {}
    /\ transient = FALSE
    /\ refused = {}
    /\ rawFile = "none"

\* What every exchange records, whoever issued it.
Exchange(c, n, resp) ==
    /\ lastReq' = [from |-> c.from, to |-> c.to, status |-> resp.status,
                   body |-> resp.body]
    /\ nreq' = nreq + 1
    /\ n429' = IF resp.status = 429 THEN n429 + 1 ELSE n429
    /\ tokenAt' = IF tokenAt = 0 /\ resp.body = "token" THEN nreq + 1 ELSE tokenAt
    /\ requested' = requested \cup {n}
    /\ delivered' = IF resp.status = 200 /\ resp.body = "rows"
                    THEN delivered \cup {n} ELSE delivered
    /\ transient' = (transient \/ IsTransient(resp))
    /\ refused' = IF resp.status \notin {0, 200} THEN refused \cup {n} ELSE refused

\* get_raw_intraday: one iteration of the while loop (lines 61-80), and the
\* except clause and return when the iteration raises.
RawIteration ==
    /\ fn = "raw" /\ fpc = "request"
    /\ current_start < end_dt
    /\ LET ce == CurrentEnd(tkind, current_start, end_dt)
           c == [from |-> ToUnix(tkind, current_start), to |-> ToUnix(tkind, ce)]
           n == Len(chunks) + 1
       IN  /\ chunks' = Append(chunks, c)
           /\ \E resp \in Responses :
                LET h == RawHandle(resp) IN
                /\ Exchange(c, n, resp)
                /\ IF h.exc
                   THEN /\ aborted' = TRUE
                        /\ fpc' = "done"
                        /\ result' = {}
                        /\ UNCHANGED <<all_data, junk, current_start>>
                   ELSE /\ all_data' = IF h.extend = "rows"
                                       THEN all_data \cup {n} ELSE all_data
                        /\ junk' = (junk \/ h.extend = "junk")
                        /\ current_start' = NextStart("raw", tkind, ce)
                        /\ UNCHANGED <<aborted, fpc, result>>
    /\ UNCHANGED <<fn, tkind, start_dt, end_dt, k>>
    /\ UNCHANGED dlvars
    /\ UNCHANGED <<rawFile, avars, pvars>>

\* get_raw_intraday: the loop has ended; df = pd.DataFrame(all_data), the
\* column work, and return df (lines 82-92). A list that holds the keys of a
\* JSON object beside (or instead of) bars makes the frame construction or
\* df['timestamp'] raise, and the except clause returns an empty frame.
RawReturn ==
    /\ fn = "raw" /\ fpc = "request"
    /\ ~(current_start < end_dt)
    /\ fpc' = "done"
    /\ aborted' = junk
    /\ result' = IF junk THEN {} ELSE all_data
    /\ UNCHANGED <<fn, tkind, start_dt, end_dt, current_start, chunks, k,
                   all_data, junk, lastReq, nreq, n429, tokenAt, requested,
                   delivered, transient, refused>>
    /\ UNCHANGED dlvars
    /\ UNCHANGED <<rawFile, avars, pvars>>

\* get_stock_intraday_history: one iteration of the while loop that builds
\* chunks (lines 135-149).
HistChunk ==
    /\ fn = "hist" /\ fpc = "chunk"
    /\ current_start < end_dt
    /\ LET ce == CurrentEnd(tkind, current_start, end_dt)
       IN  /\ chunks' = Append(chunks, [from |-> ToUnix(tkind, current_start),
                                        to |-> ToUnix(tkind, ce)])
           /\ current_start' = NextStart("hist", tkind, ce)
    /\ UNCHANGED <<fn, tkind, start_dt, end_dt, k, fpc, all_data, junk, result,
                   aborted, lastReq, nreq, n429, tokenAt, requested, delivered,
                   transient, refused>>
    /\ UNCHANGED dlvars
    /\ UNCHANGED <<rawFile, avars, pvars>>

\* get_stock_intraday_history: the while loop has ended, the for loop starts.
HistChunksDone ==
    /\ fn = "hist" /\ fpc = "chunk"
    /\ ~(current_start < end_dt)
    /\ fpc' = "request"
    /\ UNCHANGED <<fn, tkind, start_dt, end_dt, current_start, chunks, k,
                   all_data, junk, result, aborted, lastReq, nreq, n429, tokenAt,
                   requested, delivered, transient, refused>>
    /\ UNCHANGED dlvars
    /\ UNCHANGED <<rawFile, avars, pvars>>

\* make_request on a 429: sleep 60 s and call make_request again with the same
\* endpoint and params (lines 34-37); the for loop stays on its chunk. The
\* number of 429 answers is capped by Max429 to keep the state space finite.
HistRetry429 ==
    /\ fn = "hist" /\ fpc = "request"
    /\ k <= Len(chunks)
    /\ n429 < Max429
    /\ Exchange(chunks[k], k, [status |-> 429, body |-> "text"])
    /\ UNCHANGED <<fn, tkind, start_dt, end_dt, current_start, chunks, k, fpc,
                   all_data, junk, result, aborted>>
    /\ UNCHANGED dlvars
    /\ UNCHANGED <<rawFile, avars, pvars>>

\* get_stock_intraday_history: one iteration of the for loop whose request is
\* answered by something other than a 429 (lines 151-167, make_request
\* lines 26-43), and return all_data on break.
HistRequest ==
    /\ fn = "hist" /\ fpc = "request"
    /\ k <= Len(chunks)
    /\ \E resp \in {r \in Responses : r.status # 429} :
        LET h == HistHandle(MakeRequestData(resp)) IN
        /\ Exchange(chunks[k], k, resp)
        /\ all_data' = IF h.extend THEN all_data \cup {k} ELSE all_data
        /\ IF h.brk
           THEN /\ fpc' = "done"
                /\ result' = all_data'
                /\ k' = k
           ELSE /\ k' = k + 1
                /\ UNCHANGED <<fpc, result>>
    /\ UNCHANGED <<fn, tkind, start_dt, end_dt, current_start, chunks, junk,
                   aborted>>
    /\ UNCHANGED dlvars
    /\ UNCHANGED <<rawFile, avars, pvars>>

\* get_stock_intraday_history: the for loop has ended; return all_data.
HistReturn ==
    /\ fn = "hist" /\ fpc = "request"
    /\ k > Len(chunks)
    /\ fpc' = "done"
    /\ result' = all_data
    /\ UNCHANGED <<fn, tkind, start_dt, end_dt, current_start, chunks, k,
                   all_data, junk, aborted, lastReq, nreq, n429, tokenAt,
                   requested, delivered, transient, refused>>
    /\ UNCHANGED dlvars
    /\ UNCHANGED <<rawFile, avars, pvars>>

\* download_data on the frame get_raw_intraday returned for a ticker that had
\* no csv file: the try block (t = fun_to_d(...), len(t), to_csv) decides
\* whether the ticker's file is written.
RawPersist ==
    /\ fn = "raw" /\ fpc = "done"
    /\ \E p \in {"ok", "open_fails", "write_fails"} :
        LET o == [fetch |-> IF result = {} THEN "empty" ELSE "rows", persist |-> p]
        IN  rawFile' = TryBody("none", o).file
    /\ fpc' = "saved"
    /\ UNCHANGED <<fn, tkind, start_dt, end_dt, current_start, chunks, k,
                   all_data, junk, result, aborted, lastReq, nreq, n429, tokenAt,
                   requested, delivered, transient, refused>>
    /\ UNCHANGED dlvars
    /\ UNCHANGED <<avars, pvars>>

\* ------------------------------------------------- adjust_intraday_prices
\* Largest number of bars in intraday_df.
MaxBars == 3

\* Largest number of rows the provider returns for splits and for dividends.
MaxEvents == 2

\* tz_convert("America/New_York"): Eastern standard time is UTC minus 5 hours.
EasternOffsetHours == 5

SecondsPerHour == 60 * 60

\* Exact fractions stand for the float columns: [n, d] with d > 0, in lowest
\* terms, so that equal values are equal records.
RECURSIVE Gcd(_, _)
Gcd(a, b) == IF b = 0 THEN a ELSE Gcd(b, a % b)

Abs(x) == IF x < 0 THEN 0 - x ELSE x

Frac(n, d) ==
    LET g == Gcd(Abs(n), d)
    IN  [n |-> n \div g, d |-> d \div g]

Num(x) == Frac(x, 1)

Mul(x, y) == Frac(x.n * y.n, x.d * y.d)

\* x / y for y > 0
Div(x, y) == Frac(x.n * y.d, x.d * y.n)

Add(x, y) == Frac(x.n * y.d + y.n * x.d, x.d * y.d)

Sub(x, y) == Frac(x.n * y.d - y.n * x.d, x.d * y.d)

\* A missing value of a float column.
NaN == [n |-> 0, d |-> 0]

\* ---- strings are sequences of one-character strings
RECURSIVE StrSplit(_, _)
\* x.split(sep): the fields of x between the occurrences of sep
StrSplit(x, sep) ==
    IF \A j \in 1..Len(x) : x[j] # sep
    THEN <<x>>
    ELSE LET j == CHOOSE j \in 1..Len(x) :
                      x[j] = sep /\ \A h \in 1..(j - 1) : x[h] # sep
         IN  <<SubSeq(x, 1, j - 1)>> \o StrSplit(SubSeq(x, j + 1, Len(x)), sep)

DigitChars == {"0", "1", "2", "3", "4", "5", "6", "7", "8", "9"}

DigitValue(c) ==
    CASE c = "0" -> 0 [] c = "1" -> 1 [] c = "2" -> 2 [] c = "3" -> 3
      [] c = "4" -> 4 [] c = "5" -> 5 [] c = "6" -> 6 [] c = "7" -> 7
      [] c = "8" -> 8 [] c = "9" -> 9

\* float(s) raises ValueError unless s is a number literal; the literals of
\* the model are the non-empty digit strings.
IsFloatLiteral(s) == Len(s) > 0 /\ \A j \in 1..Len(s) : s[j] \in DigitChars

RECURSIVE IntOf(_)
IntOf(s) ==
    IF Len(s) = 0 THEN 0
    ELSE 10 * IntOf(SubSeq(s, 1, Len(s) - 1)) + DigitValue(s[Len(s)])

\* lambda x: float(x.split("/")[0]) / float(x.split("/")[1])
\* [ok, exc, value]: the fields past the second are never looked at.
ParseRatio(x) ==
    LET parts == StrSplit(x, "/")
    IN  IF ~IsFloatLiteral(parts[1])
        THEN [ok |-> FALSE, exc |-> "ValueError", value |-> NaN]
        ELSE IF Len(parts) < 2
        THEN [ok |-> FALSE, exc |-> "IndexError", value |-> NaN]
        ELSE IF ~IsFloatLiteral(parts[2])
        THEN [ok |-> FALSE, exc |-> "ValueError", value |-> NaN]
        ELSE IF IntOf(parts[2]) = 0
        THEN [ok |-> FALSE, exc |-> "ZeroDivisionError", value |-> NaN]
        ELSE [ok |-> TRUE, exc |-> "", value |-> Frac(IntOf(parts[1]), IntOf(parts[2]))]

\* ---- tables
\* pd.DataFrame(records): a list of records gives their keys as columns, an
\* empty list gives a table without columns.
DataFrame(records) == [cols |-> records # <<>>, rows |-> records]

\* pd.DataFrame()
EmptyDataFrame == [cols |-> FALSE, rows |-> <<>>]

\* df["datetime_us"].dt.date: the US-Eastern calendar date of a unix timestamp
EasternDate(ts) == (ts - EasternOffsetHours * SecondsPerHour) \div SecondsPerDay

RECURSIVE SortValues(_)
\* table.sort_values("date")
SortValues(rows) ==
    IF rows = <<>> THEN <<>>
    ELSE LET m == CHOOSE j \in 1..Len(rows) :
                      \A h \in 1..Len(rows) :
                          rows[j].date < rows[h].date
                              \/ (rows[j].date = rows[h].date /\ j <= h)
         IN  <<rows[m]>>
                 \o SortValues(SubSeq(rows, 1, m - 1) \o SubSeq(rows, m + 1, Len(rows)))

\* A column computed row by row, as the sequence of its values.
Column(f) == SubSeq(f, 1, Len(f))

RECURSIVE ProdTo(_, _)
ProdTo(col, j) == IF j = 0 THEN Num(1) ELSE Mul(ProdTo(col, j - 1), col[j])

\* Variant of CumProdReversed: col.cumprod(), the running product from the top.
CumProd(col) == Column([j \in 1..Len(col) |-> ProdTo(col, j)])

RECURSIVE ProdFrom(_, _)
ProdFrom(col, j) == IF j > Len(col) THEN Num(1) ELSE Mul(col[j], ProdFrom(col, j + 1))

\* col[::-1].cumprod()[::-1]: row j holds the product of rows j and below
CumProdReversed(col) == Column([j \in 1..Len(col) |-> ProdFrom(col, j)])

RECURSIVE SumFrom(_, _)
SumFrom(col, j) == IF j > Len(col) THEN Num(0) ELSE Add(col[j], SumFrom(col, j + 1))

\* col[::-1].cumsum()[::-1]
CumSumReversed(col) == Column([j \in 1..Len(col) |-> SumFrom(col, j)])

\* df.merge(table[["date", value]], on="date", how="left"), for a table whose
\* dates are unique: the value of the row with the bar's date, else missing.
MergeLeft(dates, table) ==
    Column([j \in 1..Len(dates) |->
        IF \E h \in 1..Len(table) : table[h].date = dates[j]
        THEN table[CHOOSE h \in 1..Len(table) : table[h].date = dates[j]].value
        ELSE NaN])

RECURSIVE FfillAt(_, _)
FfillAt(col, j) ==
    IF col[j] # NaN THEN col[j]
    ELSE IF j = 1 THEN NaN
    ELSE FfillAt(col, j - 1)

\* col.ffill(): a missing value takes the last value above it, if there is one
Ffill(col) == Column([j \in 1..Len(col) |-> FfillAt(col, j)])

\* col.fillna(v)
Fillna(col, v) == Column([j \in 1..Len(col) |-> IF col[j] = NaN THEN v ELSE col[j]])

Raised(e) == [status |-> "error", exc |-> e, rows |-> <<>>]

\* The per-date table merged onto the bars: the dates of the sorted event
\* rows with the cumulated values.
DateTable(events, cum) ==
    Column([j \in 1..Len(events) |-> [date |-> events[j].date, value |-> cum[j]]])

\* lines 117-118, for the split rows with their parsed ratios
SplitTable(splits) == DateTable(splits, CumProdReversed(Column([j \in 1..Len(splits) |-> splits[j].value])))

\* lines 108-126: the column cum_split_factor of the merged bars, given the
\* parsed ratios of the split rows
CumSplitFactor(dates, rows, ratio) ==
    Fillna(Ffill(MergeLeft(dates, SplitTable(SortValues(
        Column([j \in 1..Len(rows) |-> [date |-> rows[j].date, value |-> ratio[j]]]))))), Num(1))

\* line 140
DivTable(divs) == DateTable(divs, CumSumReversed(Column([j \in 1..Len(divs) |-> divs[j].value])))

\* lines 136-148: the column cum_div of the merged bars
CumDiv(dates, rows) ==
    Fillna(Ffill(MergeLeft(dates, DivTable(SortValues(
        Column([j \in 1..Len(rows) |->
            [date |-> rows[j].recordDate, value |-> rows[j].unadjustedValue]]))))), Num(0))

\* lines 129-133 and 150-151: the price columns are divided by the factor and
\* reduced by the dividend amount, the volume is multiplied by the factor.
AdjustedRows(bars, dates, f, c) ==
    Column([j \in 1..Len(bars) |->
        [timestamp |-> bars[j].timestamp,
         date |-> dates[j],
         open |-> Sub(Div(bars[j].open, f[j]), c[j]),
         high |-> Sub(Div(bars[j].high, f[j]), c[j]),
         low |-> Sub(Div(bars[j].low, f[j]), c[j]),
         close |-> Sub(Div(bars[j].close, f[j]), c[j]),
         volume |-> Mul(bars[j].volume, f[j]),
         cum_split_factor |-> f[j],
         cum_div |-> c[j]]])

\* The body of adjust_intraday_prices, given the bars' dates and the outcome
\* of the ratio lambda on every split row.
AdjustBody(bars, s_df, d_df, dates, parsed) ==
    IF ~s_df.cols THEN Raised("KeyError")
    ELSE IF \E j \in 1..Len(parsed) : ~parsed[j].ok
    THEN Raised(parsed[CHOOSE j \in 1..Len(parsed) :
                    ~parsed[j].ok /\ \A h \in 1..(j - 1) : parsed[h].ok].exc)
    ELSE IF ~d_df.cols THEN Raised("KeyError")
    ELSE [status |-> "ok", exc |-> "",
          rows |-> AdjustedRows(bars, dates,
                       CumSplitFactor(dates, s_df.rows,
                           Column([j \in 1..Len(parsed) |-> parsed[j].value])),
                       CumDiv(dates, d_df.rows))]

\* adjust_intraday_prices(intraday_df, splits_df, div_df): the returned table,
\* or the exception that leaves the function.
adjust_intraday_prices(bars, s_df, d_df) ==
    AdjustBody(bars, s_df, d_df,
        Column([j \in 1..Len(bars) |-> EasternDate(bars[j].timestamp)]),
        Column([j \in 1..Len(s_df.rows) |-> ParseRatio(s_df.rows[j].split)]))

\* ---- inputs
\* Bar timestamps (unix seconds): 15:00 UTC on days 1, 2 and 3, and 02:00 UTC
\* on day 2, which is still day 1 in New York.
BarTimes ==
    {1 * SecondsPerDay + 15 * SecondsPerHour, 2 * SecondsPerDay + 2 * SecondsPerHour,
     2 * SecondsPerDay + 15 * SecondsPerHour, 3 * SecondsPerDay + 15 * SecondsPerHour}

\* One bar's open, high, low, close and volume.
Bar(ts) ==
    [timestamp |-> ts, open |-> Num(100), high |-> Num(110), low |-> Num(90),
     close |-> Num(105), volume |-> Num(1000)]

\* The provider returns bars in ascending time order.
BarSeries ==
    {[j \in 1..Len(ts) |-> Bar(ts[j])] :
        ts \in {s \in SeqsUpTo(BarTimes, MaxBars) :
                    \A j \in 1..(Len(s) - 1) : s[j] < s[j + 1]}}

EventDates == {1, 2, 3}

\* The provider's rows carry distinct dates, in ascending or descending order.
EventDateLists ==
    {s \in SeqsUpTo(EventDates, MaxEvents) :
        \/ \A j \in 1..(Len(s) - 1) : s[j] < s[j + 1]
        \/ \A j \in 1..(Len(s) - 1) : s[j] > s[j + 1]}

\* "2/1", "10/1", "2" and "2/1/3"
RatioStrings ==
    {<<"2", "/", "1">>, <<"1", "0", "/", "1">>, <<"2">>, <<"2", "/", "1", "/", "3">>}

DivValues == {Num(1), Frac(1, 2)}

SplitRecords ==
    UNION {{[j \in 1..Len(ds) |-> [date |-> ds[j], split |-> x[j]]] :
                x \in [1..Len(ds) -> RatioStrings]} : ds \in EventDateLists}

DivRecords ==
    UNION {{[j \in 1..Len(ds) |-> [recordDate |-> ds[j], unadjustedValue |-> v[j]]] :
                v \in [1..Len(ds) -> DivValues]} : ds \in EventDateLists}

\* What response.json() gives get_splits / get_dividends, or the exception
\* raised on the way (transport error, a body that is no JSON, a JSON object).
EventResponses(records) ==
    {[kind |-> "list", rows |-> r] : r \in records \cup {<<>>}}
        \cup {[kind |-> "raises", rows |-> <<>>]}

\* The body of get_splits and of get_dividends: pd.DataFrame(response.json()),
\* and pd.DataFrame() from the except clause.
GetEvents(resp) == IF resp.kind = "list" THEN DataFrame(resp.rows) ELSE EmptyDataFrame

\* A table a caller of adjust_intraday_prices builds itself: the columns,
\* and no rows.
NoRows == [cols |-> TRUE, rows |-> <<>>]

NotCalled == [status |-> "none", exc |-> "", rows |-> <<>>]

AdjInit ==
    /\ intraday_df \in BarSeries
    /\ splits_df = EmptyDataFrame
    /\ div_df = EmptyDataFrame
    /\ adjusted = NotCalled
    /\ apc = "splits"

AdjIdle ==
    /\ intraday_df = <<>>
    /\ splits_df = EmptyDataFrame
    /\ div_df = EmptyDataFrame
    /\ adjusted = NotCalled
    /\ apc = "-"

\* splits_df = get_splits(symbol, start, end)
GetSplits ==
    /\ apc = "splits"
    /\ \E resp \in EventResponses(SplitRecords) : splits_df' = GetEvents(resp)
    /\ apc' = "divs"
    /\ UNCHANGED <<intraday_df, div_df, adjusted>>
    /\ UNCHANGED <<dlvars, fvars, pvars>>

\* The caller passes a split table with the columns and no rows.
NoSplits ==
    /\ apc = "splits"
    /\ splits_df' = NoRows
    /\ apc' = "divs"
    /\ UNCHANGED <<intraday_df, div_df, adjusted>>
    /\ UNCHANGED <<dlvars, fvars, pvars>>

\* div_df = get_dividends(symbol, start, end)
GetDividends ==
    /\ apc = "divs"
    /\ \E resp \in EventResponses(DivRecords) : div_df' = GetEvents(resp)
    /\ apc' = "adjust"
    /\ UNCHANGED <<intraday_df, splits_df, adjusted>>
    /\ UNCHANGED <<dlvars, fvars, pvars>>

\* The caller passes a dividend table with the columns and no rows.
NoDividends ==
    /\ apc = "divs"
    /\ div_df' = NoRows
    /\ apc' = "adjust"
    /\ UNCHANGED <<intraday_df, splits_df, adjusted>>
    /\ UNCHANGED <<dlvars, fvars, pvars>>

\* adjust_intraday_prices(intraday_df, splits_df, div_df)
Adjust ==
    /\ apc = "adjust"
    /\ adjusted' = adjust_intraday_prices(intraday_df, splits_df, div_df)
    /\ apc' = "done"
    /\ UNCHANGED <<intraday_df, splits_df, div_df>>
    /\ UNCHANGED <<dlvars, fvars, pvars>>

\* ----------------------------------------------------- fetch_data_parallel
\* Longest ticker list handed to fetch_data_parallel.
MaxParTickers == 3

\* Largest max_workers.
MaxPool == 2

\* The tickers submitted are the first ones of this list.
ParTickers == <<"AAPL", "BAD", "MSFT", "NVDA">>

Submitted == Range(ticker_list)

\* The fetches a worker thread is occupied with.
Busy == {t \in Submitted : task[t] \in {"running", "backoff"}}

\* Variant of WorkerFree: the pool runs one fetch at a time.
OneWorker(busy, workers) == busy < 1

\* ThreadPoolExecutor(max_workers): a queued call starts while fewer than
\* max_workers calls are running.
WorkerFree(busy, workers) == busy < workers

\* Variant of Recorded: the loop stores an entry for every future.
RecordedAlways(outcome) == TRUE

\* The try block of the as_completed loop: future.result() re-raises what the
\* fetch raised, and results[ticker] is then not assigned.
Recorded(outcome) == outcome = "ok"

ParInit ==
    /\ \E n \in 1..Min(MaxParTickers, Len(ParTickers)) : ticker_list = SubSeq(ParTickers, 1, n)
    /\ max_workers \in 1..MaxPool
    /\ limited \in SUBSET Range(ticker_list)
    /\ task = [t \in Range(ticker_list) |-> "queued"]
    /\ results = {}
    /\ handled = {}
    /\ ppc = "run"

ParIdle ==
    /\ ticker_list = <<>>
    /\ max_workers = 0
    /\ limited = {}
    /\ task = EmptyMap
    /\ results = {}
    /\ handled = {}
    /\ ppc = "-"

\* A worker thread takes the oldest queued call
\* get_stock_intraday_history(ticker, ...) off the executor's queue.
Start ==
    /\ ppc = "run"
    /\ \E n \in 1..Len(ticker_list) :
        /\ task[ticker_list[n]] = "queued"
        /\ \A m \in 1..(n - 1) : task[ticker_list[m]] # "queued"
        /\ WorkerFree(Cardinality(Busy), max_workers)
        /\ task' = [task EXCEPT ![ticker_list[n]] = "running"]
    /\ UNCHANGED <<ticker_list, max_workers, limited, results, handled, ppc>>
    /\ UNCHANGED <<dlvars, fvars, avars>>

\* make_request gets a 429 and sleeps 60 seconds in its worker thread.
RateLimited ==
    /\ ppc = "run"
    /\ \E t \in limited :
        /\ task[t] = "running"
        /\ task' = [task EXCEPT ![t] = "backoff"]
    /\ UNCHANGED <<ticker_list, max_workers, limited, results, handled, ppc>>
    /\ UNCHANGED <<dlvars, fvars, avars>>

\* The sleep ends and make_request calls itself again.
Wake ==
    /\ ppc = "run"
    /\ \E t \in Submitted :
        /\ task[t] = "backoff"
        /\ task' = [task EXCEPT ![t] = "running"]
    /\ UNCHANGED <<ticker_list, max_workers, limited, results, handled, ppc>>
    /\ UNCHANGED <<dlvars, fvars, avars>>

\* The fetch of ticker t ends: it returns its rows or raises.
FinishOf(t) ==
    /\ ppc = "run"
    /\ t \in Submitted
    /\ task[t] = "running"
    /\ \E outcome \in {"ok", "exc"} : task' = [task EXCEPT ![t] = outcome]
    /\ UNCHANGED <<ticker_list, max_workers, limited, results, handled, ppc>>
    /\ UNCHANGED <<dlvars, fvars, avars>>

Finish == \E t \in Range(ParTickers) : FinishOf(t)

\* One iteration of the as_completed loop, on a future that is done.
Collect ==
    /\ ppc = "run"
    /\ \E t \in Submitted \ handled :
        /\ task[t] \in {"ok", "exc"}
        /\ handled' = handled \cup {t}
        /\ results' = IF Recorded(task[t]) THEN results \cup {t} ELSE results
    /\ UNCHANGED <<ticker_list, max_workers, limited, task, ppc>>
    /\ UNCHANGED <<dlvars, fvars, avars>>

\* as_completed has yielded every future; the with block is left and results
\* is returned.
ReturnPar ==
    /\ ppc = "run"
    /\ handled = Submitted
    /\ ppc' = "returned"
    /\ UNCHANGED <<ticker_list, max_workers, limited, task, results, handled>>
    /\ UNCHANGED <<dlvars, fvars, avars>>

\* ---------------------------------------------------------- specifications
Init == DlInit /\ FetchIdle /\ AdjIdle /\ ParIdle

Next == Skip \/ Process \/ Return \/ Rerun

\* download_data, run once and then once more on the same directory.
Spec == Init /\ [][Next]_vars

InitFetch == FetchInit /\ DlIdle /\ AdjIdle /\ ParIdle

NextFetch ==
    RawIteration \/ RawReturn \/ HistChunk \/ HistChunksDone \/ HistRetry429
        \/ HistRequest \/ HistReturn \/ RawPersist

\* One call of get_raw_intraday (and what download_data does with its result)
\* or of get_stock_intraday_history.
SpecFetch == InitFetch /\ [][NextFetch]_vars

InitAdjust == AdjInit /\ DlIdle /\ FetchIdle /\ ParIdle

NextAdjust == GetSplits \/ NoSplits \/ GetDividends \/ NoDividends \/ Adjust

\* The split and dividend tables are obtained, then adjust_intraday_prices is
\* called once on them.
SpecAdjust == InitAdjust /\ [][NextAdjust]_vars

InitPar == ParInit /\ DlIdle /\ FetchIdle /\ AdjIdle

NextPar == Start \/ RateLimited \/ Wake \/ Finish \/ Collect \/ ReturnPar

\* One call of fetch_data_parallel. An idle worker takes the next queued call,
\* a sleep ends, a fetch whose requests are answered comes to its end, and the
\* main thread goes on when it can; nothing makes the provider stop answering
\* a rate-limited ticker with 429.
SpecPar ==
    /\ InitPar
    /\ [][NextPar]_vars
    /\ WF_vars(Start)
    /\ WF_vars(Wake)
    /\ \A t \in Range(ParTickers) : WF_vars(t \notin limited /\ FinishOf(t))
    /\ WF_vars(Collect)
    /\ WF_vars(ReturnPar)

\* ------------------------------------------------------------------ claims
\* C1: failure isolation in download_data. No per-ticker error leaves
\* download_data as an exception; when it returns, the loop has passed the
\* last ticker, the failure map holds exactly the tickers whose fetch or
\* to_csv raised or whose fetch returned zero rows, each mapped to its error,
\* and every ticker whose fetch returned rows and whose to_csv completed has
\* its complete output file.
C1_FailureIsolation ==
    /\ pc # "raised"
    /\ pc = "done" =>
        /\ i = Len(tickers) + 1
        /\ failed = raisedErr
        /\ \A t \in persisted : files[t] = "full"

\* C1 witness: the spec's example: of three tickers with no files, the
\* middle one's fetch raised, the other two were written, and the call
\* returned {BAD: error}.
C1_Witness ==
    /\ pc = "done" /\ run = 1
    /\ tickers = <<"AAPL", "BAD", "MSFT">>
    /\ DOMAIN failed = {"BAD"} /\ failed["BAD"] = "fetch error"
    /\ persisted = {"AAPL", "MSFT"}
    /\ files["AAPL"] = "full" /\ files["MSFT"] = "full" /\ files["BAD"] = "none"

\* C2: skip on existing artifact. A loop iteration that reaches a ticker
\* whose output file exists calls no fetch, leaves every file as it is and
\* adds nothing to the failure map.
C2_SkipExisting ==
    [][(pc = "loop" /\ i <= Len(tickers) /\ files[tickers[i]] # "none")
        => (ncalls' = ncalls /\ files' = files /\ failed' = failed)]_vars

\* C2 witness: the last iteration skipped a ticker whose file was there
\* before the run; it was never fetched and is not in the failure map.
C2_Witness ==
    /\ last.fetch = "skip" /\ run = 1
    /\ files[last.sym] = "old"
    /\ ncalls[last.sym] = 0
    /\ last.sym \notin DOMAIN failed

\* C3 as claimed: the second run makes no fetch call at all.
C3_SecondRunNoFetch == run = 2 => \A t \in Syms : ncalls[t] = 0

\* C3 amended: the second run fetches only tickers that the first run
\* returned in its failure map (they were left without an output file); when
\* the first run's failure map is empty the second run makes no fetch call
\* and skips every ticker of the list.
C3_SecondRunFetchesOnlyFailed ==
    run = 2 =>
        /\ \A t \in Syms : ncalls[t] > 0 => t \in DOMAIN failed1
        /\ (pc = "done" /\ failed1 = EmptyMap) =>
            (skipped = Range(tickers) /\ failed = EmptyMap)

\* C3 witness: a second run over three tickers, after a first run that wrote
\* files and returned an empty failure map, has skipped all of them.
C3_Witness ==
    /\ run = 2 /\ pc = "done"
    /\ failed1 = EmptyMap
    /\ Len(tickers) = MaxTickers
    /\ skipped = Range(tickers)
    /\ \E t \in Range(tickers) : files[t] = "full"
    /\ \A t \in Syms : ncalls[t] = 0

\* C4 as claimed: when download_data returns, a ticker of the list is absent
\* from the failure map exactly when its output file exists.
C4_FailedIffNoFile ==
    pc = "done" =>
        \A t \in Range(tickers) : (t \notin DOMAIN failed) <=> (files[t] # "none")

\* C5: an empty fetch result is a failure. After an iteration whose fetch
\* returned zero rows the ticker has no output file, the failure map holds it
\* with the reason "0 rows returned", and the loop has moved to the next ticker.
C5_EmptyIsFailure ==
    last.fetch = "empty" =>
        /\ files[last.sym] = "none"
        /\ last.sym \in DOMAIN failed
        /\ failed[last.sym] = "0 rows returned"
        /\ pc \in {"loop", "done"}
        /\ i = last.idx + 1

\* C5 witness: a fetch returned zero rows and the loop stands on a later
\* ticker of the list.
C5_Witness ==
    /\ last.fetch = "empty"
    /\ pc = "loop" /\ i <= Len(tickers)
    /\ failed[last.sym] = "0 rows returned"

\* C6 as claimed: every sub-range ends at min(its start + 100 days, end) and
\* every sub-range after the first starts strictly after the end of the one
\* before it, for dates and datetimes alike.
C6_ChunksNeverOverlap ==
    start_dt < end_dt =>
        \A n \in 1..Len(chunks) :
            /\ chunks[n].to = Min(chunks[n].from + Window, ToUnix(tkind, end_dt))
            /\ n > 1 => chunks[n].from > chunks[n - 1].to

\* The while loop of the fetch ran until current_start >= end_dt.
ChunkLoopEnded ==
    \/ fn = "hist" /\ fpc # "chunk"
    \/ fn = "raw" /\ fpc = "done" /\ ~(current_start < end_dt)

\* C7 as claimed: for start < end the sub-ranges begin at start, the last one
\* ends exactly at end, consecutive ones are separated by exactly the boundary
\* increment, and none spans more than the window plus the increment.
C7_ChunkCoverage ==
    (start_dt < end_dt /\ ChunkLoopEnded) =>
        /\ chunks[1].from = ToUnix(tkind, start_dt)
        /\ chunks[Len(chunks)].to = ToUnix(tkind, end_dt)
        /\ \A n \in 2..Len(chunks) : chunks[n].from - chunks[n - 1].to = Step(fn)
        /\ \A n \in 1..Len(chunks) : chunks[n].to - chunks[n].from <= Window + Step(fn)

\* C8 as claimed: after a 429 the next request is the same sub-range again,
\* and no fetch ends with a 429 as a sub-range's last answer, on the
\* make_request path and in get_raw_intraday alike.
C8_RetryOn429 ==
    [][/\ (lastReq.status = 429 /\ nreq' # nreq)
            => (lastReq'.from = lastReq.from /\ lastReq'.to = lastReq.to)
       /\ lastReq.status = 429 => fpc' # "done"]_vars

\* C9 as claimed: once a response carries the invalid-credential payload, no
\* further request is issued for the ticker (no later sub-range, no retry).
C9_CredentialAbort == tokenAt # 0 => nreq = tokenAt

\* C10 as claimed: when a fetch that met a transient sub-range error (and no
\* credential payload) returns, every sub-range of the range was requested and
\* the records of every sub-range that was answered with bars are in the result.
C10_TransientKeepsGoing ==
    (fpc = "done" /\ transient /\ tokenAt = 0) =>
        /\ requested = 1..Len(ChunkPlan(fn, tkind, start_dt, end_dt))
        /\ delivered \subseteq result

\* C17: chunk loop termination. An iteration of the chunk loop happens only
\* while current_start < end and moves current_start strictly forward; no
\* sub-range is produced when start >= end; and the number of sub-ranges is
\* bounded by the length of the range (one per started window).
C17_ChunkLoopTerminates ==
    [][/\ Len(chunks') # Len(chunks) =>
            /\ current_start < end_dt
            /\ Len(chunks') = Len(chunks) + 1
            /\ fpc' # "done" => current_start' > current_start
       /\ ~(start_dt < end_dt) => chunks' = <<>>
       /\ start_dt < end_dt =>
            (Len(chunks') - 1) * Window < ToUnix(tkind, end_dt) - ToUnix(tkind, start_dt)
       /\ (fn = "hist" /\ fpc = "chunk" /\ fpc' # "chunk") => ~(current_start < end_dt)
       /\ (fn = "raw" /\ fpc = "request" /\ fpc' = "done" /\ ~aborted')
            => ~(current_start < end_dt)]_vars

\* C17 witness: a chunk loop that ran to its end over more than one window
\* and stopped with current_start >= end.
C17_Witness ==
    /\ ChunkLoopEnded
    /\ Len(chunks) >= 2
    /\ current_start >= end_dt

\* C19 as claimed: download_data with get_raw_intraday writes the ticker's
\* file only if every sub-range of the range was requested and none of the
\* requests was rate-limited or rejected.
C19_NoSilentGaps ==
    rawFile # "none" =>
        /\ refused = {}
        /\ requested = 1..Len(ChunkPlan(fn, tkind, start_dt, end_dt))

\* ---- adjust_intraday_prices
\* The call returned a table.
Returned == apc = "done" /\ adjusted.status = "ok"

BarDate(j) == EasternDate(intraday_df[j].timestamp)

SplitDates == {splits_df.rows[h].date : h \in 1..Len(splits_df.rows)}

DivDates == {div_df.rows[h].recordDate : h \in 1..Len(div_df.rows)}

RECURSIVE RatiosAfter(_, _, _)
\* The product of the ratios of the split rows j.. dated strictly after d.
RatiosAfter(rows, d, j) ==
    IF j > Len(rows) THEN Num(1)
    ELSE Mul(IF rows[j].date > d THEN ParseRatio(rows[j].split).value ELSE Num(1),
             RatiosAfter(rows, d, j + 1))

RECURSIVE RatiosFrom(_, _, _)
\* The product of the ratios of the split rows j.. dated d or later.
RatiosFrom(rows, d, j) ==
    IF j > Len(rows) THEN Num(1)
    ELSE Mul(IF rows[j].date >= d THEN ParseRatio(rows[j].split).value ELSE Num(1),
             RatiosFrom(rows, d, j + 1))

RECURSIVE ValuesFrom(_, _, _)
\* The sum of the values of the dividend rows j.. dated d or later.
ValuesFrom(rows, d, j) ==
    IF j > Len(rows) THEN Num(0)
    ELSE Add(IF rows[j].recordDate >= d THEN rows[j].unadjustedValue ELSE Num(0),
             ValuesFrom(rows, d, j + 1))

\* The number of "/" in a ratio string.
Separators(x) == Cardinality({j \in 1..Len(x) : x[j] = "/"})

\* The most recent bar before bar j whose date is in D.
LastOn(j, D) ==
    CHOOSE h \in 1..(j - 1) :
        BarDate(h) \in D /\ \A g \in (h + 1)..(j - 1) : BarDate(g) \notin D

\* C11: split back-adjustment. In the returned table every bar's cumulative
\* split factor is the product of the ratios of the splits dated strictly
\* after the bar's US-Eastern date (1.0 if there are none), and its volume is
\* the input volume times that product: bars before a split are adjusted, bars
\* on or after it are not.
C11_SplitBackAdjustment ==
    Returned =>
        \A j \in 1..Len(intraday_df) :
            /\ adjusted.rows[j].cum_split_factor
                   = RatiosAfter(splits_df.rows, BarDate(j), 1)
            /\ adjusted.rows[j].volume
                   = Mul(intraday_df[j].volume, RatiosAfter(splits_df.rows, BarDate(j), 1))

\* C12: dividend back-adjustment. With no split rows and one dividend of
\* value V on date D, every bar dated strictly before D has open, high, low
\* and close reduced by V, every bar on or after D keeps its prices, and every
\* bar keeps its volume.
C12_DividendBackAdjustment ==
    (Returned /\ splits_df.rows = <<>> /\ Len(div_df.rows) = 1) =>
        \A j \in 1..Len(intraday_df) :
            LET V == IF BarDate(j) < div_df.rows[1].recordDate
                     THEN div_df.rows[1].unadjustedValue
                     ELSE Num(0)
            IN  /\ adjusted.rows[j].open = Sub(intraday_df[j].open, V)
                /\ adjusted.rows[j].high = Sub(intraday_df[j].high, V)
                /\ adjusted.rows[j].low = Sub(intraday_df[j].low, V)
                /\ adjusted.rows[j].close = Sub(intraday_df[j].close, V)
                /\ adjusted.rows[j].volume = intraday_df[j].volume

\* C13: neutral adjustment on empty tables. A call with a split table or a
\* dividend table without rows returns a table; an empty split table gives
\* every bar the factor 1.0 and its input volume, an empty dividend table
\* gives every bar the amount 0.0, and with both empty the prices are the
\* input prices.
C13_NeutralOnEmptyTables ==
    apc = "done" =>
        /\ (splits_df.rows = <<>> \/ div_df.rows = <<>>) => adjusted.status = "ok"
        /\ (Returned /\ splits_df.rows = <<>>) =>
               \A j \in 1..Len(intraday_df) :
                   /\ adjusted.rows[j].cum_split_factor = Num(1)
                   /\ adjusted.rows[j].volume = intraday_df[j].volume
        /\ (Returned /\ div_df.rows = <<>>) =>
               \A j \in 1..Len(intraday_df) : adjusted.rows[j].cum_div = Num(0)
        /\ (Returned /\ splits_df.rows = <<>> /\ div_df.rows = <<>>) =>
               \A j \in 1..Len(intraday_df) :
                   /\ adjusted.rows[j].open = intraday_df[j].open
                   /\ adjusted.rows[j].high = intraday_df[j].high
                   /\ adjusted.rows[j].low = intraday_df[j].low
                   /\ adjusted.rows[j].close = intraday_df[j].close

\* C14: a malformed ratio is fatal. If the ratio string of some split row
\* does not hold exactly one "/", the call fails and returns no table.
C14_MalformedRatioFatal ==
    (/\ apc = "done"
     /\ \E h \in 1..Len(splits_df.rows) : Separators(splits_df.rows[h].split) # 1)
        => adjusted.status = "error"

\* C18: the fill rule, for bars in ascending time order. A bar on a split
\* date takes that date's suffix product (the split's ratio times all later
\* ratios); a bar on no split date takes the factor of the most recent earlier
\* bar on a split date; a bar with no such earlier bar takes 1.0, and so does
\* every bar dated before the first split. The dividend amount follows the
\* same rule with suffix sums and 0.0.
C18_FactorFillRule ==
    Returned =>
        \A j \in 1..Len(intraday_df) :
            LET d == BarDate(j)
                r == adjusted.rows
            IN  /\ d \in SplitDates =>
                       r[j].cum_split_factor = RatiosFrom(splits_df.rows, d, 1)
                /\ (d \notin SplitDates /\ \E h \in 1..(j - 1) : BarDate(h) \in SplitDates) =>
                       r[j].cum_split_factor = r[LastOn(j, SplitDates)].cum_split_factor
                /\ (d \notin SplitDates /\ \A h \in 1..(j - 1) : BarDate(h) \notin SplitDates) =>
                       r[j].cum_split_factor = Num(1)
                /\ (\A x \in SplitDates : d < x) => r[j].cum_split_factor = Num(1)
                /\ d \in DivDates => r[j].cum_div = ValuesFrom(div_df.rows, d, 1)
                /\ (d \notin DivDates /\ \E h \in 1..(j - 1) : BarDate(h) \in DivDates) =>
                       r[j].cum_div = r[LastOn(j, DivDates)].cum_div
                /\ (d \notin DivDates /\ \A h \in 1..(j - 1) : BarDate(h) \notin DivDates) =>
                       r[j].cum_div = Num(0)
                /\ (\A x \in DivDates : d < x) => r[j].cum_div = Num(0)

\* Two splits and two dividends; a bar on a split date followed by a bar on
\* none, and a bar before the first dividend followed by a bar on a dividend
\* date.
C18_Witness ==
    /\ Returned
    /\ Len(splits_df.rows) >= 2
    /\ Len(div_df.rows) >= 2
    /\ \E j \in 1..Len(intraday_df) :
           /\ BarDate(j) \notin SplitDates
           /\ \E h \in 1..(j - 1) : BarDate(h) \in SplitDates
    /\ \E j \in 1..Len(intraday_df) :
           /\ BarDate(j) \in DivDates
           /\ \E h \in 1..(j - 1) : \A x \in DivDates : BarDate(h) < x

\* ---- fetch_data_parallel
Finished(t) == task[t] \in {"ok", "exc"}

\* C15: parallel batch completion. When fetch_data_parallel has returned,
\* every submitted fetch has finished, each with its own outcome, and results
\* holds an entry for exactly the tickers whose fetch did not raise.
C15_BatchCompletion ==
    ppc = "returned" =>
        /\ \A t \in Submitted : Finished(t)
        /\ results = {t \in Submitted : task[t] = "ok"}

\* A batch that returned after one fetch raised and a ticker submitted after
\* it returned its rows.
C15_Witness ==
    /\ ppc = "returned"
    /\ \E m, n \in 1..Len(ticker_list) :
        /\ m < n
        /\ task[ticker_list[m]] = "exc"
        /\ task[ticker_list[n]] = "ok"
        /\ ticker_list[n] \in results

\* C16 as claimed: fetches blocked in 429 backoff sleeps do not block any
\* other ticker's fetch, for any number of rate-limited tickers: no ticker
\* whose own requests get answered waits in the queue while every worker of
\* the pool is asleep in a backoff.
C16_BackoffBlocksNobody ==
    ~ \E t \in Submitted \ limited :
        /\ task[t] = "queued"
        /\ Cardinality({u \in Submitted : task[u] = "backoff"}) = max_workers

\* C16 amended: a backoff sleep occupies its own worker only. If fewer than
\* max_workers of the submitted tickers are rate-limited, every other
\* submitted ticker eventually starts and completes.
C16_ProgressWithSpareWorker ==
    \A t \in Range(ParTickers) :
        (t \in Submitted \ limited /\ Cardinality(limited) < max_workers)
            ~> (t \in Submitted /\ Finished(t))

\* A ticker submitted after a rate-limited one has completed while the
\* rate-limited one sleeps in its backoff.
C16_Witness ==
    /\ Cardinality(limited) < max_workers
    /\ \E m, n \in 1..Len(ticker_list) :
        /\ m < n
        /\ task[ticker_list[m]] = "backoff"
        /\ ticker_list[n] \notin limited
        /\ task[ticker_list[n]] = "ok"

====
